---- MODULE Spec2Model ----
(***************************************************************************)
(* The authenticated-request pipeline of the Criteo MAPI client            *)
(* (src/lib/mapi.js): checkAuthentication, authenticate, mapiRequest,       *)
(* executeRequest, decideWhetherToRequeue, resolveRequest, rejectRequest    *)
(* and the response handlers.                                               *)
(*                                                                         *)
(* Texts (response bodies, error messages) are sequences of symbols.  A    *)
(* decimal digit is one symbol, so that the substring search for '401' and *)
(* the status pattern /20[0-9]/ are computed on digits; every other symbol *)
(* stands for a piece of text that contains no digit.                      *)
(***************************************************************************)
EXTENDS Integers, Sequences, FiniteSets, TLC

\* ------------------------------------------------------------------ bounds
\* number of calls the user makes on one client instance
NumDesc == 2
\* deepest nesting of mapiRequest(r) inside decideWhetherToRequeue the model follows
MaxLvl == 3

\* ------------------------------------------------------------------- texts
DigitSym == <<"0", "1", "2", "3", "4", "5", "6", "7", "8", "9">>

DigitSet == {DigitSym[i] : i \in 1..10}

\* Number.prototype.toString in base 10
RECURSIVE Digits(_)
Digits(n) ==
    IF n < 10 THEN <<DigitSym[n + 1]>>
    ELSE Digits(n \div 10) \o <<DigitSym[(n % 10) + 1]>>

\* String.prototype.indexOf(pat) > -1
Contains(text, pat) ==
    \E i \in 1..(Len(text) - Len(pat) + 1) :
        SubSeq(text, i, i + Len(pat) - 1) = pat

\* err.toString().indexOf('401') > -1
Has401(text) == Contains(text, <<"4", "0", "1">>)

\* status.toString().match(/20[0-9]/) !== null : the pattern is not anchored
Matches20x(status) ==
    LET s == Digits(status)
    IN  \E i \in 1..(Len(s) - 2) :
            s[i] = "2" /\ s[i + 1] = "0" /\ s[i + 2] \in DigitSet

\* String.prototype.trim
RECURSIVE Trim(_)
Trim(b) ==
    IF b = <<>> THEN b
    ELSE IF Head(b) = " " THEN Trim(Tail(b))
    ELSE IF b[Len(b)] = " " THEN Trim(SubSeq(b, 1, Len(b) - 1))
    ELSE b

\* ------------------------------------------------------------------ values
\* A JavaScript value that travels through the promise chain: t is its type,
\* d its content as symbols.
Val(t, d) == [t |-> t, d |-> d]

Undefined == Val("undefined", <<>>)

True == Val("true", <<>>)

Null == Val("null", <<>>)

False == Val("false", <<>>)

Str(d) == Val("string", d)

\* new Error(msg): toString() is "Error: " + msg
Err(msg) == Val("error", <<"Error: ">> \o msg)

IsErr(v) == v.t = "error"

\* JavaScript truthiness of the values the token can take
Truthy(v) ==
    /\ v.t \notin {"undefined", "null", "false", "error"}
    /\ ~(v.t = "string" /\ v.d = <<>>)

\* -------------------------------------------------------------- JSON.parse
Punct == {"{", "}", ":", " "}

\* text that is not JSON: an unquoted word
BareWords == {"Unauthorized", "Unavailable"}

\* the literal names of JSON
Literals == {"null", "true", "false"}

\* the symbol of the text "" (two quotes): the empty string literal
EmptyStr == "\"\""

\* a symbol that stands for a quoted string
IsStrSym(c) ==
    c \notin Punct /\ c \notin DigitSet /\ c \notin BareWords /\ c \notin Literals

\* first position (1-based) at which the text stops being a JSON document of
\* the shapes  null | true | false | number | "string" | {} | {"key": scalar} ;
\* 0 when the whole text is accepted, -1 when the text ends too early
RECURSIVE Scan(_, _, _)
Scan(b, i, st) ==
    IF i > Len(b) THEN (IF st \in {"end", "num"} THEN 0 ELSE -1)
    ELSE LET c == b[i]
         IN  CASE st = "start" ->
                    IF c = "{" THEN Scan(b, i + 1, "key")
                    ELSE IF c \in DigitSet THEN Scan(b, i + 1, "num")
                    ELSE IF c \in Literals \/ IsStrSym(c) THEN Scan(b, i + 1, "end")
                    ELSE i
               [] st = "key" ->
                    IF c = "}" THEN Scan(b, i + 1, "end")
                    ELSE IF IsStrSym(c) THEN Scan(b, i + 1, "colon")
                    ELSE i
               [] st = "colon" ->
                    IF c = ":" THEN Scan(b, i + 1, "val") ELSE i
               [] st = "val" ->
                    IF c \in DigitSet THEN Scan(b, i + 1, "objnum")
                    ELSE IF c \in Literals \/ IsStrSym(c) THEN Scan(b, i + 1, "close")
                    ELSE i
               [] st = "objnum" ->
                    IF c \in DigitSet THEN Scan(b, i + 1, "objnum")
                    ELSE IF c = "}" THEN Scan(b, i + 1, "end")
                    ELSE i
               [] st = "close" ->
                    IF c = "}" THEN Scan(b, i + 1, "end") ELSE i
               [] st = "num" ->
                    IF c \in DigitSet THEN Scan(b, i + 1, "num") ELSE i
               [] OTHER -> i

JSONparseAsText(b) == Str(b)

\* JSON.parse(b): the parsed value, or the SyntaxError it throws.
\* An object is kept as its key followed by the symbols of its value.
JSONparse(b) ==
    LET bad == Scan(b, 1, "start")
    IN  IF bad = -1
        THEN Val("error", <<"SyntaxError: Unexpected end of JSON input">>)
        ELSE IF bad > 0
        THEN Val("error", <<"SyntaxError: Unexpected token ", b[bad],
                            " in JSON at position ">> \o Digits(bad - 1))
        ELSE IF b[1] = "{"
        THEN (IF Len(b) = 2 THEN Val("object", <<>>)
              ELSE Val("object", SubSeq(b, 2, 2) \o SubSeq(b, 4, Len(b) - 1)))
        ELSE IF b = <<"null">> THEN Null
        ELSE IF b = <<"true">> THEN True
        ELSE IF b = <<"false">> THEN False
        ELSE IF b[1] \in DigitSet THEN Val("number", b)
        ELSE IF b = <<EmptyStr>> THEN Str(<<>>)
        ELSE Str(b)

\* response.access_token on a parsed value: a TypeError on null, the
\* field's value when the object has the key, undefined otherwise
AccessToken(v) ==
    IF v.t = "null" THEN Val("error", <<"TypeError: Cannot read property of null">>)
    ELSE IF v.t = "object" /\ Len(v.d) >= 2 /\ v.d[1] = "access_token"
    THEN (IF v.d[2] = "null" THEN Null
          ELSE IF v.d[2] = "true" THEN True
          ELSE IF v.d[2] = "false" THEN False
          ELSE IF v.d[2] \in DigitSet THEN Val("number", Tail(v.d))
          ELSE IF v.d[2] = EmptyStr THEN Str(<<>>)
          ELSE Str(Tail(v.d)))
    ELSE Undefined

\* ---------------------------------------------------------------- handlers
AuthErrorMsg == <<"Error Retrieving Session Token from Authentication Response!">>

processAuthKeepsHeldToken(res, tok) ==
    LET response == JSONparse(res.body)
        field    == AccessToken(response)
    IN  IF IsErr(response) \/ IsErr(field)
        THEN [out |-> Err(AuthErrorMsg), token |-> tok]
        ELSE [out |-> field, token |-> IF Truthy(tok) THEN tok ELSE field]

\* processAuth(res): the value the returned promise settles with (an error
\* value when it rejects) and the token the client holds afterwards
processAuth(res, tok) ==
    LET response == JSONparse(res.body)
        field    == AccessToken(response)
    IN  IF IsErr(response) \/ IsErr(field)
        THEN [out |-> Err(AuthErrorMsg), token |-> tok]
        ELSE [out |-> field, token |-> field]

parseJSONEmptyDocument(body) ==
    IF body # <<>>
    THEN LET v == JSONparse(body)
         IN  IF IsErr(v) THEN Err(<<"Error Parsing JSON Response: ">> \o v.d)
             ELSE v
    ELSE Val("object", <<>>)

\* parseJSON(body, resolve, reject)
parseJSON(body) ==
    IF body # <<>>
    THEN LET v == JSONparse(body)
         IN  IF IsErr(v) THEN Err(<<"Error Parsing JSON Response: ">> \o v.d)
             ELSE v
    ELSE True

\* parseResponse(body, resolve, reject)
parseResponse(body) == IF body # <<>> THEN Str(body) ELSE True

\* the destination path of processFile
FilePath == "out.csv"

\* the error fs.writeFile reports on a path it cannot write
IOError == Val("error", <<"Error: EACCES: permission denied, open ", FilePath>>)

\* saveToFile(filepath, body, resolve, reject): what the callback of
\* fs.writeFile settles the promise with, ok telling whether the write succeeded
saveToFile(ok) ==
    IF ok THEN Str(<<"Results saved to ", FilePath, ".">>)
    ELSE Err(<<"Error Saving Response to File. ">> \o IOError.d)

\* the promise of process() is not settled yet: the parser waits for the
\* file system
Unsettled == Val("unsettled", <<>>)

\* process(res, parser): on a status outside the pattern the promise is
\* rejected first; the parser still runs, but a settled promise ignores it
process(res, mode) ==
    LET bad    == ~Matches20x(res.status)
        first  == Err(<<"Bad Response From API: Status Code ">>
                      \o Digits(res.status) \o <<" | ">> \o res.body)
        parsed == IF mode = "json" THEN parseJSON(Trim(res.body))
                  ELSE IF mode = "text" THEN parseResponse(Trim(res.body))
                  ELSE Unsettled
    IN  IF bad THEN first ELSE parsed

\* --------------------------------------------------------------- transport
\* One HTTP exchange (the transport is outside src/lib): it returns a status
\* and a raw body, or fails with a transport error.
Resp(status, body) == [status |-> status, body |-> body]

NoResp == Resp(0, <<>>)

\* what an API endpoint may answer: a document, a truncated document, a
\* rejected token, an outage, and an error whose body happens to hold the
\* digits 401
ApiResponses ==
    { Resp(200, <<"{", "id", ":", "7", "}">>),
      Resp(200, <<"{", "id">>),
      Resp(401, <<"Unauthorized">>),
      Resp(503, <<"Unavailable">>),
      Resp(500, <<"{", "code", ":", "4", "0", "1", "0", "}">>) }

\* the tokens the authentication server hands out, one after the other
TokenSym == <<"T1", "T2", "T3">>

\* what the authentication endpoint may answer after having issued n tokens:
\* the next token, or a refusal with or without a JSON body
AuthResponses(n) ==
    { Resp(200, <<"{", "access_token", ":", TokenSym[(n % Len(TokenSym)) + 1], "}">>),
      Resp(401, <<"{", "error", ":", "invalid_client", "}">>),
      Resp(401, <<"Unauthorized">>) }

TransportError == Err(<<"transport failure">>)

\* JSON.stringify on the server's side: the body that carries a payload
Serialize(v) ==
    CASE v.t = "object" ->
            <<"{">> \o (IF v.d = <<>> THEN <<>> ELSE <<v.d[1], ":">> \o Tail(v.d)) \o <<"}">>
      [] v.t = "string" -> (IF v.d = <<>> THEN <<EmptyStr>> ELSE v.d)
      [] v.t = "number" -> v.d
      [] OTHER -> <<v.t>>

\* the payloads a statistics endpoint may return
Payloads ==
    { Val("object", <<>>),
      Val("object", <<"id", "7">>),
      Val("object", <<"clicks", "4", "0">>),
      Val("object", <<"name", "Acme">>),
      Val("object", <<"name", EmptyStr>>),
      Val("object", <<"name", "null">>),
      Val("object", <<"active", "false">>),
      Null, True, False,
      Val("number", <<"4", "2">>),
      Str(<<"Acme">>),
      Str(<<>>) }

StatsStatuses == {200, 204, 226, 401, 500}

\* the bodies of those answers: a serialized payload, nothing, blanks, a
\* document between blanks, a truncated document
StatsBodies ==
    {Serialize(P) : P \in Payloads}
        \cup { <<>>, <<" ">>, <<" ", " ">>,
               <<" ", "{", "id", ":", "7", "}", " ">>,
               <<"{", "id">> }

StatsResponses == {Resp(s, b) : s \in StatsStatuses, b \in StatsBodies}

\* ------------------------------------------------------------------- state
AuthPath == "/oauth2/token"

CategoriesPath == "/v1/advertisers/7/categories"

ApiPath == "/v1/campaigns"

StatsPath == "/v1/statistics"

\* what the endpoint of a path may answer
EndpointResponses(path, n) ==
    IF path = AuthPath THEN AuthResponses(n)
    ELSE IF path = StatsPath THEN StatsResponses
    ELSE ApiResponses

\* the 'method' of the descriptor the endpoint method of a path builds
DescMethod(d) == IF d.path \in {AuthPath, StatsPath} THEN "post" ELSE "get"

\* its 'query': the mapping getCategoriesByAdvertiser builds, none otherwise
DescQuery(d) ==
    IF d.path = CategoriesPath THEN Val("object", <<"enabledOnly", "true">>)
    ELSE Undefined

\* its 'body': the form data of authenticate, the JSON text of getStats
DescBody(d) ==
    IF d.path = AuthPath
    THEN Str(<<"client_id=id&client_secret=secret&grant_type=client_credentials">>)
    ELSE IF d.path = StatsPath THEN Str(<<"{", "format", ":", "json", "}">>)
    ELSE Undefined

\* String(v) in a template literal
TemplateText(v) == IF v.t \in {"string", "number"} THEN v.d ELSE <<v.t>>

AuthorizationAnonymous(tok) == <<"Bearer ">>

\* the Authorization header of request(): `Bearer ${this.token}`
Authorization(tok) == <<"Bearer ">> \o TemplateText(tok)

\* request(method, req): what is handed to this[method]
request(req, tok) ==
    [path |-> req.path, body |-> req.body, query |-> req.query,
     authorization |-> Authorization(tok)]

\* querystring.stringify(obj): key=value of a mapping, '' of anything else
Stringify(v) ==
    IF v.t = "object" /\ v.d # <<>> THEN <<v.d[1], "=">> \o Tail(v.d) ELSE <<>>

\* apiRequest(method, req): the options of _request; it takes protocol,
\* path, headers and body from req
apiRequest(method, req) ==
    [method |-> method, path |-> req.path, authorization |-> req.authorization,
     body |-> req.body]

\* apiGet(req): the query string is made of req.body, which is then deleted
apiGet(req) ==
    apiRequest("GET", [req EXCEPT !.path = req.path \o <<"?">> \o Stringify(req.body),
                                  !.body = Undefined])

apiPost(req) == apiRequest("POST", req)

\* executeRequest(r) -> this[r.method]({path, body, query}) -> request()
executeRequest(d, tok) ==
    LET req == request([path |-> <<d.path>>, body |-> DescBody(d),
                        query |-> DescQuery(d)], tok)
    IN  IF DescMethod(d) = "get" THEN apiGet(req) ELSE apiPost(req)

NoTx == [method |-> "", path |-> <<>>, authorization |-> <<>>, body |-> Undefined]

Main == 1..NumDesc

\* every user call owns one slot for the authenticate() its chain invokes
Pid == 1..(2 * NumDesc)

ChildShared(p) == NumDesc + 1

\* the slot of the descriptor authenticate() builds inside the chain of p
Child(p) == p + NumDesc

Parent(c) == c - NumDesc

VARIABLES
    token,      \* this.token
    r,          \* the request descriptors: path, handler, callback, retry, callbackExecuted
    pc,         \* where the promise chain of the innermost mapiRequest(r) stands
    lvl,        \* number of mapiRequest(r) invocations that are still open
    val,        \* the value or error that travels down the chain
    resp,       \* the last response of the descriptor's own endpoint
    aw,         \* the promise returned to the caller of the outermost mapiRequest(r)
    cbCalls,    \* the invocations of r.callback, as (err, res) pairs
    epCalls,    \* Transport calls issued for the descriptor's own endpoint
    sent,       \* the Authorization token of those calls
    nAuth,      \* authenticate() invocations made by the descriptor's chain
    authTx,     \* Transport calls issued by those authenticate() invocations
    issued,     \* number of tokens the authentication server has issued
    hist,       \* statuses of the completed exchanges of the own endpoint (0: transport error)
    heldAtCall, \* whether a token was held when the user made the call
    wr,         \* the fs.writeFile calls of the descriptor's handler, with their outcome
    tx,         \* the request handed to the Transport for the call in flight
    nCompl      \* how many times resolveRequest or rejectRequest ran on the descriptor

vars == <<token, r, pc, lvl, val, resp, aw, cbCalls, epCalls, sent, nAuth, authTx,
          issued, hist, heldAtCall, wr, tx, nCompl>>

NoDesc == [path |-> "", handler |-> "", callback |-> "none",
           retry |-> FALSE, callbackExecuted |-> FALSE]

Pending == [st |-> "pending", v |-> Undefined]

ResolvedEmpty(res) == [st |-> "resolved", v |-> Undefined]

RejectedEmpty(err) == [st |-> "rejected", v |-> Undefined]

\* resolve(res) and reject(err) on a pending promise
Resolved(res) == [st |-> "resolved", v |-> res]

Rejected(err) == [st |-> "rejected", v |-> err]

Init ==
    /\ token = Str(<<>>)
    /\ r = [p \in Pid |-> NoDesc]
    /\ pc = [p \in Pid |-> "idle"]
    /\ lvl = [p \in Pid |-> 0]
    /\ val = [p \in Pid |-> Undefined]
    /\ resp = [p \in Pid |-> NoResp]
    /\ aw = [p \in Pid |-> Pending]
    /\ cbCalls = [p \in Pid |-> <<>>]
    /\ epCalls = [p \in Pid |-> 0]
    /\ sent = [p \in Pid |-> Undefined]
    /\ nAuth = [p \in Pid |-> 0]
    /\ authTx = [p \in Pid |-> 0]
    /\ issued = 0
    /\ hist = [p \in Pid |-> <<>>]
    /\ heldAtCall = [p \in Pid |-> FALSE]
    /\ wr = [p \in Pid |-> <<>>]
    /\ tx = [p \in Pid |-> NoTx]
    /\ nCompl = [p \in Pid |-> 0]

\* ---------------------------------------------------------------- pipeline
checkAuthenticationAnyToken(tok, d) ==
    ~d.retry \/ d.path = AuthPath

checkAuthenticationAnyRetry(tok, d) ==
    Truthy(tok) \/ d.path = AuthPath

checkAuthenticationNoBootstrap(tok, d) ==
    Truthy(tok) /\ ~d.retry

\* checkAuthentication(r): TRUE when the promise resolves
checkAuthentication(tok, d) ==
    (Truthy(tok) /\ ~d.retry) \/ d.path = AuthPath

mapiRequestJoinsAuthInFlight(tok, d) ==
    IF checkAuthentication(tok, d) \/ (\E c \in Pid \ Main : pc[c] = "inflight")
    THEN "execute" ELSE "authenticate"

mapiRequestAlwaysAuthenticates(tok, d) == "authenticate"

mapiRequestTrustsToken(tok, d) ==
    IF Truthy(tok) \/ d.path = AuthPath THEN "execute" ELSE "authenticate"

\* mapiRequest(r) runs checkAuthentication(r) at once: the chain continues
\* with executeRequest when it resolves, with authenticate when it rejects
mapiRequest(tok, d) ==
    IF checkAuthentication(tok, d) THEN "execute" ELSE "authenticate"

\* The reactions of a promise chain are microtasks: once a chain has been
\* started or woken by the completion of its exchange, its reactions run
\* until it waits for an exchange again or has completed, before the event
\* loop delivers another exchange or runs other user code.
\* a write handed to fs.writeFile whose callback has not run yet
WritePending(p) == \E i \in 1..Len(wr[p]) : wr[p][i].st = "pending"

Reacting(p) ==
    \/ pc[p] \in {"authenticate", "execute", "decide", "resolve", "reject"}
    \/ pc[p] = "done" /\ p \in Main /\ ~WritePending(p)
    \/ pc[p] = "awaitAuth" /\ Child(p) \in Pid /\ aw[Child(p)].st # "pending"

MicrotasksDrained == \A q \in Pid : ~Reacting(q)

\* the descriptor an endpoint method (or authenticate) builds
Descriptor(path, handler, callback) ==
    [path |-> path, handler |-> handler, callback |-> callback,
     retry |-> FALSE, callbackExecuted |-> FALSE]

\* the user calls an endpoint method, or authenticate(callback)
Call(p, path, handler, callback) ==
    /\ pc[p] = "idle"
    /\ \A q \in Main : q < p => pc[q] # "idle"
    /\ MicrotasksDrained
    /\ LET d == Descriptor(path, handler, callback)
       IN  /\ r' = [r EXCEPT ![p] = d]
           /\ pc' = [pc EXCEPT ![p] = mapiRequest(token, d)]
    /\ lvl' = [lvl EXCEPT ![p] = 1]
    /\ heldAtCall' = [heldAtCall EXCEPT ![p] = Truthy(token)]
    /\ UNCHANGED <<token, val, resp, aw, cbCalls, epCalls, sent, nAuth, authTx, hist, issued, wr, tx, nCompl>>

\* .catch(this.authenticate.bind(this)): authenticate(undefined) builds a
\* fresh descriptor without callback and hands it to mapiRequest
Authenticate(p) ==
    /\ pc[p] = "authenticate"
    /\ Child(p) \in Pid
    /\ LET c == Child(p)
           d == Descriptor(AuthPath, "auth", "none")
       IN  /\ r' = [r EXCEPT ![c] = d]
           /\ pc' = [pc EXCEPT ![p] = "awaitAuth", ![c] = mapiRequest(token, d)]
           /\ lvl' = [lvl EXCEPT ![c] = 1]
           /\ val' = [val EXCEPT ![c] = Undefined]
           /\ resp' = [resp EXCEPT ![c] = NoResp]
           /\ aw' = [aw EXCEPT ![c] = Pending]
           /\ cbCalls' = [cbCalls EXCEPT ![c] = <<>>]
           /\ epCalls' = [epCalls EXCEPT ![c] = 0]
           /\ sent' = [sent EXCEPT ![c] = Undefined]
           /\ hist' = [hist EXCEPT ![c] = <<>>]
           /\ tx' = [tx EXCEPT ![c] = NoTx]
           /\ nCompl' = [nCompl EXCEPT ![c] = 0]
    /\ nAuth' = [nAuth EXCEPT ![p] = @ + 1]
    /\ UNCHANGED <<token, authTx, heldAtCall, issued, wr>>

\* the promise of authenticate() settled: .then(executeRequest) runs on a
\* token, .catch(decideWhetherToRequeue) receives a rejection.  Nothing
\* refers to the authentication descriptor afterwards; the status of its
\* exchange is kept as the record of what the Transport returned.
AuthSettled(p) ==
    /\ pc[p] = "awaitAuth"
    /\ Child(p) \in Pid
    /\ aw[Child(p)].st # "pending"
    /\ LET c == Child(p)
       IN  /\ IF aw[c].st = "resolved"
              THEN /\ pc' = [pc EXCEPT ![p] = "execute", ![c] = "idle"]
                   /\ val' = [val EXCEPT ![c] = Undefined]
              ELSE /\ pc' = [pc EXCEPT ![p] = "decide", ![c] = "idle"]
                   /\ val' = [val EXCEPT ![p] = aw[c].v, ![c] = Undefined]
           /\ r' = [r EXCEPT ![c] = NoDesc]
           /\ lvl' = [lvl EXCEPT ![c] = 0]
           /\ resp' = [resp EXCEPT ![c] = NoResp]
           /\ aw' = [aw EXCEPT ![c] = Pending]
           /\ cbCalls' = [cbCalls EXCEPT ![c] = <<>>]
           /\ epCalls' = [epCalls EXCEPT ![c] = 0]
           /\ sent' = [sent EXCEPT ![c] = Undefined]
           /\ tx' = [tx EXCEPT ![c] = NoTx]
           /\ nCompl' = [nCompl EXCEPT ![c] = 0]
    /\ UNCHANGED <<token, nAuth, authTx, hist, heldAtCall, issued, wr>>

\* executeRequest(r) -> this[r.method] -> request(): the Authorization
\* header takes the token held at this moment
ExecuteRequest(p) ==
    /\ pc[p] = "execute"
    /\ pc' = [pc EXCEPT ![p] = "inflight"]
    /\ sent' = [sent EXCEPT ![p] = token]
    /\ tx' = [tx EXCEPT ![p] = executeRequest(r[p], token)]
    /\ epCalls' = [epCalls EXCEPT ![p] = @ + 1]
    /\ resp' = [resp EXCEPT ![p] = NoResp]
    /\ authTx' = IF p \in Main THEN authTx
                 ELSE [authTx EXCEPT ![Parent(p)] = @ + 1]
    /\ UNCHANGED <<token, r, lvl, val, aw, cbCalls, nAuth, hist, heldAtCall, issued, wr, nCompl>>

\* the exchange fails (connection error, timeout): .then(r.handler) is skipped
TransportFails(p) ==
    /\ pc[p] = "inflight"
    /\ MicrotasksDrained
    /\ val' = [val EXCEPT ![p] = TransportError]
    /\ pc' = [pc EXCEPT ![p] = "decide"]
    /\ sent' = [sent EXCEPT ![p] = Undefined]
    /\ tx' = [tx EXCEPT ![p] = NoTx]
    /\ hist' = [hist EXCEPT ![p] = Append(@, 0)]
    /\ UNCHANGED <<token, r, lvl, resp, aw, cbCalls, epCalls, nAuth, authTx, heldAtCall, issued, wr, nCompl>>

\* what fs.writeFile is asked to write for a response
Write(res) == [status |-> res.status, body |-> Trim(res.body), st |-> "pending"]

\* the exchange completes with a status and a body (any status) and
\* .then(r.handler) runs on it: processAuth, processJSON, processResponse
\* or processFile, which hands the body to fs.writeFile whatever the status
Handler(p) ==
    /\ pc[p] = "inflight"
    /\ MicrotasksDrained
    /\ \E res \in EndpointResponses(r[p].path, issued) :
          LET auth == processAuth(res, token)
              out  == IF r[p].handler = "auth" THEN auth.out
                      ELSE process(res, r[p].handler)
          IN  /\ resp' = [resp EXCEPT ![p] = res]
              /\ val' = [val EXCEPT ![p] = out]
              /\ pc' = [pc EXCEPT ![p] = IF IsErr(out) THEN "decide"
                                         ELSE IF out = Unsettled THEN "writing"
                                         ELSE "resolve"]
              /\ token' = IF r[p].handler = "auth" THEN auth.token ELSE token
              /\ hist' = [hist EXCEPT ![p] = Append(@, res.status)]
              /\ issued' = IF r[p].path = AuthPath /\ res.status = 200
                           THEN (issued + 1) % Len(TokenSym) ELSE issued
              /\ wr' = IF r[p].handler = "file"
                       THEN [wr EXCEPT ![p] = Append(@, Write(res))]
                       ELSE wr
    /\ sent' = [sent EXCEPT ![p] = Undefined]
    /\ tx' = [tx EXCEPT ![p] = NoTx]
    /\ UNCHANGED <<r, lvl, aw, cbCalls, epCalls, nAuth, authTx, heldAtCall, nCompl>>

\* the callback of fs.writeFile runs, with or without an error.  It settles
\* the promise of process() when that promise waits for this write; the
\* promise of a response with a bad status was rejected before, and
\* ignores it.
WriteFile(p) ==
    /\ MicrotasksDrained
    /\ \E i \in 1..Len(wr[p]), ok \in BOOLEAN :
          /\ wr[p][i].st = "pending"
          /\ wr' = [wr EXCEPT ![p][i].st = IF ok THEN "ok" ELSE "failed"]
          /\ IF pc[p] = "writing" /\ i = Len(wr[p])
             THEN /\ val' = [val EXCEPT ![p] = saveToFile(ok)]
                  /\ pc' = [pc EXCEPT ![p] = IF ok THEN "resolve" ELSE "decide"]
             ELSE UNCHANGED <<pc, val>>
    /\ UNCHANGED <<token, r, lvl, resp, aw, cbCalls, epCalls, sent, nAuth, authTx,
                   issued, hist, heldAtCall, tx, nCompl>>

RequeueWhatever(d, err) == Has401(err.d)

RequeueAnyFailure(d, err) == ~d.retry

\* the condition under which decideWhetherToRequeue(r, err) requeues
Requeue(d, err) == Has401(err.d) /\ ~d.retry

\* decideWhetherToRequeue(r, err)
DecideWhetherToRequeue(p) ==
    /\ pc[p] = "decide"
    /\ IF Requeue(r[p], val[p])
       THEN /\ lvl[p] < MaxLvl
            /\ LET d == [r[p] EXCEPT !.retry = TRUE]
               IN  /\ r' = [r EXCEPT ![p] = d]
                   /\ pc' = [pc EXCEPT ![p] = mapiRequest(token, d)]
            /\ lvl' = [lvl EXCEPT ![p] = @ + 1]
            /\ val' = [val EXCEPT ![p] = Undefined]
            /\ resp' = [resp EXCEPT ![p] = NoResp]
       ELSE /\ pc' = [pc EXCEPT ![p] = "reject"]
            /\ UNCHANGED <<r, lvl, val, resp>>
    /\ UNCHANGED <<token, aw, cbCalls, epCalls, sent, nAuth, authTx, hist, heldAtCall, issued, wr, tx, nCompl>>

CallsBackAlways(d) == TRUE

CallsBackUnguarded(d) == d.callback # "none"

CallsBackInverted(d) == d.callback # "none" /\ d.callbackExecuted

\* the guard of both completion steps: r.callback && !r.callbackExecuted
CallsBack(d) == d.callback # "none" /\ ~d.callbackExecuted

CallbackError == Err(<<"thrown by the callback">>)

CallbackArgsGeneric(err, res) ==
    [err |-> IF err = Null THEN Null ELSE Err(<<"request failed">>), res |-> res]

\* the arguments of r.callback(null, res) and of r.callback(err)
CallbackArgs(err, res) == [err |-> err, res |-> res]

\* resolveRequest(r, resolve, res).  resolve() of a nested mapiRequest(r)
\* settles the promise decideWhetherToRequeue returned, whose
\* .then(resolveRequest) is the next step one level up.  A callback that
\* throws sends the chain to .catch(rejectRequest) before resolve() is reached.
ResolveRequest(p) ==
    /\ pc[p] = "resolve"
    /\ IF CallsBack(r[p])
       THEN /\ r' = [r EXCEPT ![p].callbackExecuted = TRUE]
            /\ cbCalls' = [cbCalls EXCEPT
                             ![p] = Append(@, CallbackArgs(Null, val[p]))]
       ELSE UNCHANGED <<r, cbCalls>>
    /\ IF CallsBack(r[p]) /\ r[p].callback = "throws"
       THEN /\ pc' = [pc EXCEPT ![p] = "reject"]
            /\ val' = [val EXCEPT ![p] = CallbackError]
            /\ UNCHANGED <<lvl, aw>>
       ELSE IF lvl[p] = 1
       THEN /\ pc' = [pc EXCEPT ![p] = "done"]
            /\ aw' = [aw EXCEPT ![p] = Resolved(val[p])]
            /\ UNCHANGED <<lvl, val>>
       ELSE /\ lvl' = [lvl EXCEPT ![p] = @ - 1]
            /\ UNCHANGED <<pc, val, aw>>
    /\ nCompl' = [nCompl EXCEPT ![p] = @ + 1]
    /\ UNCHANGED <<token, resp, epCalls, sent, nAuth, authTx, hist, heldAtCall, issued, wr, tx>>

\* rejectRequest(r, reject, err): the callback branch never calls reject(),
\* so the promise of this level stays pending and nothing follows it
RejectRequest(p) ==
    /\ pc[p] = "reject"
    /\ IF CallsBack(r[p])
       THEN /\ r' = [r EXCEPT ![p].callbackExecuted = TRUE]
            /\ cbCalls' = [cbCalls EXCEPT
                             ![p] = Append(@, CallbackArgs(val[p], Undefined))]
            /\ pc' = [pc EXCEPT ![p] = "done"]
            /\ UNCHANGED <<lvl, aw>>
       ELSE /\ UNCHANGED <<r, cbCalls>>
            /\ IF lvl[p] = 1
               THEN /\ pc' = [pc EXCEPT ![p] = "done"]
                    /\ aw' = [aw EXCEPT ![p] = Rejected(val[p])]
                    /\ lvl' = lvl
               ELSE /\ lvl' = [lvl EXCEPT ![p] = @ - 1]
                    /\ UNCHANGED <<pc, aw>>
    /\ nCompl' = [nCompl EXCEPT ![p] = @ + 1]
    /\ UNCHANGED <<token, val, resp, epCalls, sent, nAuth, authTx, hist, heldAtCall, issued, wr, tx>>

\* the chain of a user call has ended and its writes are over: the caller
\* has its outcome, and nothing refers to the descriptor any more
Retire(p) ==
    /\ pc[p] = "done"
    /\ p \in Main
    /\ ~WritePending(p)
    /\ pc' = [pc EXCEPT ![p] = "retired"]
    /\ r' = [r EXCEPT ![p] = NoDesc]
    /\ lvl' = [lvl EXCEPT ![p] = 0]
    /\ val' = [val EXCEPT ![p] = Undefined]
    /\ resp' = [resp EXCEPT ![p] = NoResp]
    /\ aw' = [aw EXCEPT ![p] = Pending]
    /\ cbCalls' = [cbCalls EXCEPT ![p] = <<>>]
    /\ epCalls' = [epCalls EXCEPT ![p] = 0]
    /\ nAuth' = [nAuth EXCEPT ![p] = 0]
    /\ authTx' = [authTx EXCEPT ![p] = 0]
    /\ hist' = [hist EXCEPT ![p] = <<>>, ![Child(p)] = <<>>]
    /\ heldAtCall' = [heldAtCall EXCEPT ![p] = FALSE]
    /\ wr' = [wr EXCEPT ![p] = <<>>]
    /\ nCompl' = [nCompl EXCEPT ![p] = 0]
    /\ UNCHANGED <<token, sent, issued, tx>>

Callbacks == {"none", "returns", "throws"}

\* the handlers of the calls the model makes: processJSON
ApiHandlers == {"json"}

Next ==
    \/ \E p \in Main, h \in ApiHandlers, cb \in Callbacks : Call(p, ApiPath, h, cb)
    \/ \E p \in Main, cb \in Callbacks : Call(p, AuthPath, "auth", cb)
    \/ \E p \in Pid : Authenticate(p)
    \/ \E p \in Pid : AuthSettled(p)
    \/ \E p \in Pid : ExecuteRequest(p)
    \/ \E p \in Pid : TransportFails(p)
    \/ \E p \in Pid : Handler(p)
    \/ \E p \in Pid : DecideWhetherToRequeue(p)
    \/ \E p \in Pid : ResolveRequest(p)
    \/ \E p \in Pid : RejectRequest(p)
    \/ \E p \in Pid : Retire(p)

Spec == Init /\ [][Next]_vars

\* every step of a chain that is not the user's call is taken once it can be:
\* promise reactions always run, and every exchange returns or fails
Step(p) ==
    \/ Authenticate(p)
    \/ AuthSettled(p)
    \/ ExecuteRequest(p)
    \/ TransportFails(p)
    \/ Handler(p)
    \/ DecideWhetherToRequeue(p)
    \/ ResolveRequest(p)
    \/ RejectRequest(p)
    \/ Retire(p)

FairSpec == Spec /\ \A p \in Pid : WF_vars(Step(p))

\* ------------------------------------------------ one statistics call
\* determineStatsHandler(query, filepath): processFile when a file path is
\* given, processJSON for the json format, processResponse otherwise
StatsHandlers == {"file", "json", "text"}

\* one call of a statistics method on a fresh client, with any of its handlers
NextStats ==
    \/ \E h \in StatsHandlers, cb \in Callbacks : Call(1, StatsPath, h, cb)
    \/ \E p \in Pid : Authenticate(p)
    \/ \E p \in Pid : AuthSettled(p)
    \/ \E p \in Pid : ExecuteRequest(p)
    \/ \E p \in Pid : TransportFails(p)
    \/ \E p \in Pid : Handler(p)
    \/ \E p \in Pid : WriteFile(p)
    \/ \E p \in Pid : DecideWhetherToRequeue(p)
    \/ \E p \in Pid : ResolveRequest(p)
    \/ \E p \in Pid : RejectRequest(p)
    \/ \E p \in Pid : Retire(p)

StatsSpec == Init /\ [][NextStats]_vars

\* ------------------------------------------------ one call with a query
\* one call of getCategoriesByAdvertiser, a GET whose descriptor carries a query
NextQuery ==
    \/ \E cb \in Callbacks : Call(1, CategoriesPath, "json", cb)
    \/ \E p \in Pid : Authenticate(p)
    \/ \E p \in Pid : AuthSettled(p)
    \/ \E p \in Pid : ExecuteRequest(p)
    \/ \E p \in Pid : TransportFails(p)
    \/ \E p \in Pid : Handler(p)
    \/ \E p \in Pid : DecideWhetherToRequeue(p)
    \/ \E p \in Pid : ResolveRequest(p)
    \/ \E p \in Pid : RejectRequest(p)
    \/ \E p \in Pid : Retire(p)

QuerySpec == Init /\ [][NextQuery]_vars

\* --------------------------------------------- the authorization check
\* the values this.token can hold: the initial empty string, a token,
\* and what processAuth stores from a document without the field or with a
\* null field
GateTokens == {Str(<<>>), Str(<<"T1">>), Str(<<"T2">>), Undefined, Null}

\* the descriptors the check can be handed
GateDescriptors ==
    [path : {AuthPath, ApiPath, StatsPath}, handler : {"auth", "json"},
     callback : Callbacks, retry : BOOLEAN, callbackExecuted : BOOLEAN]

GateInit ==
    /\ token \in GateTokens
    /\ \E d \in GateDescriptors : r = [p \in Pid |-> IF p = 1 THEN d ELSE NoDesc]
    /\ pc = [p \in Pid |-> IF p = 1 THEN "check" ELSE "idle"]
    /\ lvl = [p \in Pid |-> 0]
    /\ val = [p \in Pid |-> Undefined]
    /\ resp = [p \in Pid |-> NoResp]
    /\ aw = [p \in Pid |-> Pending]
    /\ cbCalls = [p \in Pid |-> <<>>]
    /\ epCalls = [p \in Pid |-> 0]
    /\ sent = [p \in Pid |-> Undefined]
    /\ nAuth = [p \in Pid |-> 0]
    /\ authTx = [p \in Pid |-> 0]
    /\ issued = 0
    /\ hist = [p \in Pid |-> <<>>]
    /\ heldAtCall = [p \in Pid |-> FALSE]
    /\ wr = [p \in Pid |-> <<>>]
    /\ tx = [p \in Pid |-> NoTx]
    /\ nCompl = [p \in Pid |-> 0]

CheckAuthenticationDropsToken(p) ==
    /\ pc[p] = "check"
    /\ pc' = [pc EXCEPT ![p] = IF checkAuthentication(token, r[p])
                               THEN "allowed" ELSE "refused"]
    /\ token' = IF checkAuthentication(token, r[p]) THEN token ELSE Str(<<>>)
    /\ UNCHANGED <<r, lvl, val, resp, aw, cbCalls, epCalls, sent, nAuth, authTx,
                   issued, hist, heldAtCall, wr, tx, nCompl>>

\* checkAuthentication(r) is called and its promise settles
CheckAuthentication(p) ==
    /\ pc[p] = "check"
    /\ pc' = [pc EXCEPT ![p] = IF checkAuthentication(token, r[p])
                               THEN "allowed" ELSE "refused"]
    /\ UNCHANGED <<token, r, lvl, val, resp, aw, cbCalls, epCalls, sent, nAuth, authTx,
                   issued, hist, heldAtCall, wr, tx, nCompl>>

GateNext == \E p \in Pid : CheckAuthentication(p)

GateSpec == GateInit /\ [][GateNext]_vars

\* ------------------------------------------------------------------ claims
\* the error the descriptor's second 401-classified failure produced
SecondFailure401(p) ==
    /\ r[p].retry
    /\ Len(hist[p]) = 2
    /\ resp[p] # NoResp
    /\ IsErr(val[p])
    /\ Has401(val[p].d)

\* the caller received exactly this error: through the callback when one
\* was supplied, through the awaitable otherwise
DeliveredError(p, err) ==
    IF r[p].callback # "none"
    THEN cbCalls[p] = <<[err |-> err, res |-> Undefined]>>
    ELSE aw[p].st = "rejected" /\ aw[p].v = err

\* C1: at most one retry: no descriptor ever issues a third Transport call
\* for its own endpoint, and after a second 401-classified failure in a row
\* the chain only rejects and that second failure is what the caller receives.
C1_AtMostOneRetry ==
    \A p \in Pid :
        /\ epCalls[p] <= 2
        /\ SecondFailure401(p) =>
              /\ pc[p] \in {"decide", "reject", "done"}
              /\ epCalls[p] = 2
              /\ pc[p] = "done" => DeliveredError(p, val[p])

C1_Witness ==
    \E p \in Main :
        /\ SecondFailure401(p)
        /\ hist[p] = <<401, 401>>
        /\ pc[p] = "done"
        /\ \E q \in Main : q # p /\ pc[q] # "idle"

\* C2: the user callback of a descriptor is invoked at most once.
C2_CallbackAtMostOnce ==
    \A p \in Pid : Len(cbCalls[p]) <= 1

C2_Witness ==
    \E p \in Main :
        /\ r[p].retry
        /\ r[p].callback = "returns"
        /\ pc[p] = "done"
        /\ aw[p].st = "resolved"
        /\ Len(cbCalls[p]) = 1

\* C3: exactly-once completion: a descriptor submitted with a callback has
\* its callback invoked eventually, and never more than once, whatever retry
\* and authentication cycles it goes through.
C3_ExactlyOnceCompletion ==
    /\ \A p \in Main :
          (pc[p] \notin {"idle", "retired"} /\ r[p].callback # "none")
              ~> (Len(cbCalls[p]) = 1)
    /\ [](\A p \in Main : Len(cbCalls[p]) <= 1)

C3_Witness ==
    \E p \in Main :
        /\ r[p].callback # "none"
        /\ nAuth[p] = 2
        /\ hist[p] = <<401, 200>>
        /\ pc[p] = "done"
        /\ Len(cbCalls[p]) = 1

\* the single invocation of the callback of p, when there is exactly one
TheCall(p) == cbCalls[p][1]

\* C4 as stated: once the chain of a descriptor with a callback has ended,
\* the awaitable is settled like the callback: resolved with the result the
\* callback received, or rejected with the error the callback received.
C4_AwaitableSettledLikeCallback ==
    \A p \in Main :
        (pc[p] = "done" /\ Len(cbCalls[p]) = 1) =>
            IF TheCall(p).err = Null
            THEN aw[p].st = "resolved" /\ aw[p].v = TheCall(p).res
            ELSE aw[p].st = "rejected" /\ aw[p].v = TheCall(p).err

\* C4 amended: a callback that received (null, result) and returned sees the
\* awaitable resolved with the same result; once a callback has received an
\* error the awaitable is not rejected: it is pending and stays so.
C4_AwaitableAfterCallback ==
    \A p \in Main :
        Len(cbCalls[p]) = 1 =>
            /\ TheCall(p).err # Null => aw[p].st = "pending"
            /\ (TheCall(p).err = Null /\ r[p].callback = "returns" /\ pc[p] = "done")
                  => (aw[p].st = "resolved" /\ aw[p].v = TheCall(p).res)

C4_Witness ==
    /\ \E p \in Main :
          /\ pc[p] = "done"
          /\ Len(cbCalls[p]) = 1
          /\ IsErr(TheCall(p).err)
          /\ aw[p].st = "pending"
    /\ \E q \in Main :
          /\ pc[q] = "inflight"
          /\ r[q].callback = "returns"

\* C5 as stated: a failure that is not an HTTP 401 response is delivered
\* on its first occurrence: the step decideWhetherToRequeue takes on it
\* leaves the retried flag alone and goes on to reject, so that no
\* authentication and no further Transport call follow.
C5_Non401NotRetried ==
    [][\A p \in Pid :
          (pc[p] = "decide" /\ resp[p].status # 401) =>
              /\ r'[p].retry = r[p].retry
              /\ pc'[p] \in {"decide", "reject"}]_vars

\* the call was made to an API endpoint while no token was held
CalledWithoutToken(p) ==
    /\ p \in Main
    /\ pc[p] \notin {"idle", "retired"}
    /\ r[p].path = ApiPath
    /\ ~heldAtCall[p]

\* the value the handler of p makes of the last response
HandlerOut(p) ==
    IF r[p].handler = "auth" THEN processAuth(resp[p], token).out
    ELSE process(resp[p], r[p].handler)

\* C6: a first call made with no stored token authenticates before it
\* executes: its endpoint call is issued only after an authentication
\* exchange was issued and has completed; when the authentication and the
\* endpoint call both succeed there were exactly two Transport calls, one of
\* each, and the callback was delivered once.
C6_FirstRequestAuthenticatesFirst ==
    \A p \in Main :
        CalledWithoutToken(p) =>
            /\ epCalls[p] >= 1 =>
                  /\ authTx[p] >= 1
                  /\ ~r[p].retry => pc[Child(p)] = "idle"
            /\ (pc[p] = "done" /\ hist[p] = <<200>> /\ ~IsErr(HandlerOut(p))) =>
                  /\ authTx[p] = 1
                  /\ nAuth[p] = 1
                  /\ epCalls[p] = 1
                  /\ r[p].callback # "none" => Len(cbCalls[p]) = 1

C6_Witness ==
    \E p \in Main :
        /\ CalledWithoutToken(p)
        /\ pc[p] = "done"
        /\ hist[p] = <<200>>
        /\ authTx[p] = 1
        /\ epCalls[p] = 1
        /\ r[p].callback = "returns"
        /\ Len(cbCalls[p]) = 1
        /\ TheCall(p).err = Null
        /\ Truthy(token)

\* the call was made with a token held, its endpoint answered 401 and then,
\* on the retry, 200 with a body the handler accepts
RecoveredFromExpiredToken(p) ==
    /\ p \in Main
    /\ r[p].path = ApiPath
    /\ heldAtCall[p]
    /\ pc[p] = "done"
    /\ hist[p] = <<401, 200>>
    /\ ~IsErr(HandlerOut(p))

\* C7: expired-token recovery: such a call made exactly two Transport calls
\* for its endpoint and exactly one authentication call, its result is the
\* payload of the 200 response, a supplied callback fired once with no
\* error, and the 401 failure was delivered to nobody.
C7_ExpiredTokenRecovery ==
    \A p \in Main :
        RecoveredFromExpiredToken(p) =>
            /\ epCalls[p] = 2
            /\ nAuth[p] = 1
            /\ authTx[p] = 1
            /\ r[p].callback # "none" =>
                  cbCalls[p] = <<[err |-> Null, res |-> HandlerOut(p)]>>
            /\ r[p].callback = "none" => cbCalls[p] = <<>>
            /\ r[p].callback # "throws" =>
                  (aw[p].st = "resolved" /\ aw[p].v = HandlerOut(p))
            /\ aw[p].st = "rejected" => ~Has401(aw[p].v.d)

C7_Witness ==
    \E p \in Main :
        /\ RecoveredFromExpiredToken(p)
        /\ r[p].callback = "returns"
        /\ epCalls[p] = 2
        /\ aw[p].st = "resolved"
        /\ aw[p].v.t = "object"

\* the authentication exchange of c ended in a failure: a transport error,
\* a status outside 200..299, or a body that carries no access token
AuthExchangeFailed(c) ==
    /\ pc[c] = "done"
    /\ \/ resp[c] = NoResp
       \/ resp[c].status \notin 200..299
       \/ AccessToken(JSONparse(resp[c].body)).t \in {"undefined", "error"}

\* C8 as stated: when the authentication invoked for a descriptor fails,
\* whatever the failure, the descriptor goes to its completion: it is not
\* requeued and no Transport call for its own endpoint follows.
C8_AuthFailureEndsDescriptor ==
    [][\A p \in Main :
          (pc[p] = "awaitAuth" /\ AuthExchangeFailed(Child(p))) =>
              /\ pc'[p] \in {"awaitAuth", "decide", "reject"}
              /\ r'[p].retry = r[p].retry]_vars

\* the body is a JSON document with an access-token field
HasTokenField(body) ==
    LET v == JSONparse(body)
    IN  v.t = "object" /\ Len(v.d) >= 1 /\ v.d[1] = "access_token"

\* C9 as stated: processAuth yields a token only when the body of the
\* authentication response parses and has an access-token field; on
\* malformed JSON and on JSON without the field it fails.
C9_AuthFailsWithoutTokenField ==
    \A p \in Pid :
        (r[p].handler = "auth" /\ resp[p] # NoResp /\ pc[p] \in {"resolve", "decide"}) =>
            IF HasTokenField(resp[p].body)
            THEN pc[p] = "resolve" /\ val[p].t = "string"
            ELSE pc[p] = "decide" /\ IsErr(val[p])

\* the error a descriptor without callback is rejected with: the failure of
\* its last response, or the failure of the exchange or of the
\* authentication that produced no response
IsFinalFailure(p, err) ==
    IF resp[p] # NoResp THEN IsErr(HandlerOut(p)) /\ err = HandlerOut(p)
    ELSE err \in {TransportError, Err(AuthErrorMsg)}

\* C10: a descriptor submitted without a callback has its awaitable settled
\* eventually; the awaitable is settled when the chain ends, resolved with
\* the handler's result of the last response or rejected with the failure,
\* and once settled it does not change.
C10_AwaitableSettledOnce ==
    /\ \A p \in Main :
          (pc[p] \notin {"idle", "retired"} /\ r[p].callback = "none")
              ~> (aw[p].st # "pending")
    /\ [](\A p \in Main :
            (pc[p] \notin {"idle", "retired"} /\ r[p].callback = "none") =>
                /\ pc[p] = "done" <=> aw[p].st # "pending"
                /\ aw[p].st = "resolved" =>
                      (resp[p] # NoResp /\ ~IsErr(aw[p].v) /\ aw[p].v = HandlerOut(p))
                /\ aw[p].st = "rejected" => IsFinalFailure(p, aw[p].v))
    /\ [][\A p \in Main :
            (aw[p].st # "pending" /\ pc'[p] # "retired") => aw'[p] = aw[p]]_vars

C10_Witness ==
    \E p \in Main :
        /\ r[p].callback = "none"
        /\ r[p].retry
        /\ lvl[p] = 1
        /\ pc[p] = "done"
        /\ aw[p].st = "rejected"
        /\ Has401(aw[p].v.d)
        /\ \E q \in Main : pc[q] = "inflight"

\* a token is stored and it is not the empty string
NonEmptyToken(tok) == tok.t = "string" /\ tok.d # <<>>

\* C11: checkAuthentication(descriptor) lets the descriptor proceed exactly
\* when a non-empty token is stored and the descriptor is not marked
\* retried, or the path of the descriptor is the authentication endpoint;
\* so a request to the authentication path proceeds with an empty token and
\* with retried set.
C11_CheckAuthenticationContract ==
    \A p \in Pid :
        pc[p] \in {"allowed", "refused"} =>
            /\ pc[p] = "allowed" <=>
                  \/ NonEmptyToken(token) /\ ~r[p].retry
                  \/ r[p].path = AuthPath
            /\ (r[p].path = AuthPath /\ token = Str(<<>>)) => pc[p] = "allowed"

C11_Witness ==
    \E p \in Pid :
        /\ pc[p] = "allowed"
        /\ r[p].path = AuthPath
        /\ r[p].retry
        /\ token = Str(<<>>)

\* the failure is the 'bad response' failure of process()
IsBadResponse(v) ==
    IsErr(v) /\ Len(v.d) >= 2 /\ v.d[2] = "Bad Response From API: Status Code "

\* the handler of a statistics call has just processed a response
Processed(p) ==
    /\ r[p].handler \in StatsHandlers
    /\ resp[p] # NoResp
    /\ pc[p] \in {"resolve", "decide", "writing"}

\* C12 as stated: the Response Processor takes a response for a success
\* exactly when its status is in 200..299; every other status gives the
\* 'bad response' failure in every mode, whatever the body, and a status in
\* 200..299 never does.
C12_SuccessIffStatus2xx ==
    \A p \in Pid :
        Processed(p) =>
            (IsBadResponse(val[p]) <=> resp[p].status \notin 200..299)

Outcome(p) ==
    IF r[p].callback = "none" THEN aw[p].v
    ELSE IF cbCalls[p] = <<>> THEN Undefined
    ELSE IF TheCall(p).err # Null THEN TheCall(p).err
    ELSE TheCall(p).res

\* the failure carries the error fs.writeFile reported
CarriesIOCause(v) == IsErr(v) /\ Contains(v.d, IOError.d)

WriteFailed(p) == \E i \in 1..Len(wr[p]) : wr[p][i].st = "failed"

\* C14 as stated: in file-write mode, a descriptor one of whose writes to the
\* destination path failed completes with a failure that carries the I/O
\* cause, never with the confirmation; and the confirmation is only
\* produced after a write that succeeded.
C14_WriteFailureIsTheOutcome ==
    \A p \in Main :
        (r[p].handler = "file" /\ pc[p] = "done") =>
            /\ WriteFailed(p) => CarriesIOCause(Outcome(p))
            /\ Outcome(p) = saveToFile(TRUE) =>
                  (wr[p] # <<>> /\ wr[p][Len(wr[p])].st = "ok")

\* the failure that what the Transport returned to the chain of p makes,
\* whatever the completion protocol: the handler's failure on the last
\* response of the endpoint, the transport error of its last exchange, or
\* the failure of the authentication that came last
FailureOf(p) ==
    IF resp[p] # NoResp THEN HandlerOut(p)
    ELSE IF hist[p] # <<>> /\ hist[p][Len(hist[p])] = 0 THEN TransportError
    ELSE IF hist[Child(p)] = <<0>> THEN TransportError
    ELSE Err(AuthErrorMsg)

\* C15: both completion protocols see the same error for the same
\* underlying failure: the error a supplied callback receives, and the
\* error the awaitable is rejected with when there is no callback, are both
\* the failure the Transport responses of the descriptor determine.
C15_SameErrorOnBothProtocols ==
    \A p \in Main :
        pc[p] = "done" =>
            /\ (r[p].callback # "none" /\ cbCalls[p] # <<>> /\ TheCall(p).err # Null)
                  => TheCall(p).err = FailureOf(p)
            /\ (r[p].callback = "none" /\ aw[p].st = "rejected")
                  => aw[p].v = FailureOf(p)

C15_Witness ==
    \E p \in Main :
        /\ pc[p] = "done"
        /\ r[p].callback = "returns"
        /\ r[p].path = ApiPath
        /\ hist[p] = <<401>>
        /\ resp[p] = NoResp
        /\ cbCalls[p] # <<>>
        /\ TheCall(p).err = Err(AuthErrorMsg)

\* C16: JSON round trip: for every payload P of Payloads, processing in JSON
\* mode a status-200 response whose body is the serialization of P resolves
\* with a value equal to P.
C16_JSONRoundTrip ==
    \A p \in Pid :
        (Processed(p) /\ r[p].handler = "json" /\ resp[p].status = 200) =>
            \A P \in Payloads :
                resp[p].body = Serialize(P) => (pc[p] = "resolve" /\ val[p] = P)

C16_Witness ==
    \E p \in Pid :
        /\ Processed(p)
        /\ r[p].handler = "json"
        /\ resp[p] = Resp(200, Serialize(Val("object", <<"name", EmptyStr>>)))
        /\ pc[p] = "resolve"
        /\ val[p] = Val("object", <<"name", EmptyStr>>)

\* C17 as stated: the stored token is written only by the success path of
\* authentication: a step changes it only when that step completes an
\* authentication exchange whose response has a status in 200..299 and an
\* access token; a failed authentication exchange leaves it as it was.
C17_TokenWrittenOnlyOnAuthSuccess ==
    [][token' # token =>
          \E p \in Pid :
              /\ r[p].handler = "auth"
              /\ pc[p] = "inflight"
              /\ pc'[p] # "inflight"
              /\ resp'[p].status \in 200..299
              /\ HasTokenField(resp'[p].body)]_vars

\* the descriptor of p exists after the step
Alive(p) == pc[p] \notin {"idle", "retired"}

\* C18: the retried flag of a descriptor is monotonic: it is false when the
\* descriptor is created, a step sets it only as the retry decision on a
\* 401-classified failure taken with the flag still false, and no step
\* resets it while the descriptor lives (so it is set at most once).
C18_RetriedMonotonic ==
    [][\A p \in Pid :
          Alive(p)' =>
              /\ ~Alive(p) => ~r'[p].retry
              /\ (Alive(p) /\ r[p].retry) => r'[p].retry
              /\ (Alive(p) /\ ~r[p].retry /\ r'[p].retry) =>
                    /\ pc[p] = "decide"
                    /\ IsErr(val[p])
                    /\ Has401(val[p].d)]_vars

C18_Witness ==
    \E p \in Main :
        /\ r[p].retry
        /\ epCalls[p] = 2
        /\ pc[p] = "decide"
        /\ IsErr(val[p])
        /\ Has401(val[p].d)

\* the authenticate() invocations a retried call to an API endpoint must
\* have made: one for the retry, and one before if it was made without token
AuthsOfRetry(p) == IF heldAtCall[p] THEN 1 ELSE 2

\* C19: the retry of a non-auth descriptor always forces re-authentication:
\* once retried is set the chain goes to authenticate(), whatever token is
\* held, and the second Transport call for the endpoint is issued only
\* after the exchange of that authentication was issued and has completed.
\* A descriptor whose path is the authentication endpoint never invokes
\* authenticate(), and with retried set the check lets it proceed.
C19_RetryForcesReauthentication ==
    /\ \A p \in Main :
          (r[p].path = ApiPath /\ r[p].retry) =>
              /\ pc[p] = "authenticate" \/ nAuth[p] = AuthsOfRetry(p)
              /\ pc[p] = "authenticate" => nAuth[p] = AuthsOfRetry(p) - 1
              /\ epCalls[p] = 2 =>
                    /\ authTx[p] = AuthsOfRetry(p)
                    /\ pc[Child(p)] = "idle"
                    /\ Len(hist[Child(p)]) = 1
    /\ \A p \in Pid :
          r[p].path = AuthPath =>
              /\ nAuth[p] = 0
              /\ pc[p] \notin {"authenticate", "awaitAuth"}
    /\ \A tok \in GateTokens :
          mapiRequest(tok, [Descriptor(AuthPath, "auth", "none") EXCEPT !.retry = TRUE])
              = "execute"

C19_Witness ==
    \E p \in Main :
        /\ r[p].path = ApiPath
        /\ r[p].retry
        /\ heldAtCall[p]
        /\ pc[p] = "awaitAuth"
        /\ pc[Child(p)] = "inflight"
        /\ NonEmptyToken(token)
        /\ issued = 2

\* the authentications a call to an API endpoint has needed so far: one when
\* it was made without a token, one when it was requeued after a 401
Needed(p) ==
    (IF heldAtCall[p] THEN 0 ELSE 1) + (IF r[p].retry THEN 1 ELSE 0)

\* the authentication pipelines that are open
OpenAuths == {c \in Pid \ Main : pc[c] # "idle"}

\* C20: concurrent authentication is not deduplicated or locked: every
\* descriptor that needs authentication invokes authenticate() and issues an
\* authentication exchange of its own, whatever the other descriptors are
\* doing, so that N such descriptors issue N authentication calls; a
\* descriptor waiting for authentication goes on only when its own
\* authentication has settled.
C20_EveryDescriptorAuthenticatesItself ==
    /\ [](\A p \in Main :
            (Alive(p) /\ r[p].path = ApiPath) =>
                /\ nAuth[p] = IF pc[p] = "authenticate" THEN Needed(p) - 1 ELSE Needed(p)
                /\ pc[p] \notin {"authenticate", "awaitAuth"} => authTx[p] = Needed(p)
                /\ pc[p] = "awaitAuth" =>
                      /\ Child(p) \in OpenAuths
                      /\ authTx[p] = IF pc[Child(p)] = "execute"
                                     THEN Needed(p) - 1 ELSE Needed(p))
    /\ [](Cardinality(OpenAuths) = Cardinality({p \in Main : pc[p] = "awaitAuth"}))
    /\ [][\A p \in Main :
            (pc[p] = "awaitAuth" /\ pc'[p] # "awaitAuth") =>
                aw[Child(p)].st # "pending"]_vars

C20_Witness ==
    /\ \A p \in Main :
          /\ r[p].path = ApiPath
          /\ r[p].retry
          /\ pc[p] = "awaitAuth"
          /\ pc[Child(p)] = "inflight"
    /\ Cardinality(OpenAuths) = NumDesc

\* the step processes the response of the authentication exchange of c
AuthResponseProcessed(c) ==
    /\ r[c].handler = "auth"
    /\ pc[c] = "inflight"
    /\ pc'[c] \in {"resolve", "decide"}
    /\ resp'[c] # NoResp

\* C21: last writer wins on the shared token: whatever token is stored and
\* whatever other authentications are in flight, once the response of an
\* authentication that carries an access token is processed the stored
\* token is the access token of that response; the stored value is always
\* one whole value, never a mixture, and nothing else of earlier tokens is kept.
C21_LastWriterWins ==
    /\ [][\A c \in Pid :
            (AuthResponseProcessed(c) /\ HasTokenField(resp'[c].body)) =>
                token' = AccessToken(JSONparse(resp'[c].body))]_vars
    /\ [](token.t = "string" => Len(token.d) <= 1)

C21_Witness ==
    /\ token = Str(<<"T2">>)
    /\ pc[Child(2)] = "resolve"
    /\ resp[Child(2)] = Resp(200, <<"{", "access_token", ":", "T2", "}">>)
    /\ pc[1] = "inflight"
    /\ sent[1] = Str(<<"T1">>)
    /\ \A p \in Main : r[p].path = ApiPath /\ ~heldAtCall[p] /\ ~r[p].retry

\* the state of the descriptor of a user call and of the authentication
\* descriptor its chain has built: flags, callback, progress and outcome
ChainState(m) ==
    <<r[m], pc[m], lvl[m], val[m], aw[m], cbCalls[m],
      r[Child(m)], pc[Child(m)], lvl[Child(m)], val[Child(m)], aw[Child(m)],
      cbCalls[Child(m)]>>

\* C22: descriptors are independent state machines: no step changes the
\* retried flag, the callback-delivered flag, the callback, the progress or
\* the outcome of two user calls at once, so a step taken for one descriptor
\* leaves every other descriptor as it was; what one descriptor's step
\* changes for the others is the shared token only.
C22_DescriptorsIndependent ==
    [][\A p, q \in Main :
          (p # q /\ ChainState(p)' # ChainState(p)) =>
              ChainState(q)' = ChainState(q)]_vars

C22_Witness ==
    /\ pc[1] = "inflight"
    /\ pc[2] = "inflight"
    /\ r[1].retry
    /\ ~r[2].retry
    /\ r[1].callback = "none"
    /\ r[2].callback = "returns"
    /\ sent[1] # sent[2]

\* C23: the authorization check has no side effects: the step in which
\* checkAuthentication allows or refuses a descriptor leaves the stored
\* token, the descriptor's retried flag, its callback-delivered flag, its
\* other fields and every other descriptor unchanged.
C23_CheckHasNoSideEffects ==
    [][\A p \in Pid :
          (pc[p] = "check" /\ pc'[p] \in {"allowed", "refused"}) =>
              /\ token' = token
              /\ r' = r
              /\ \A q \in Pid \ {p} : pc'[q] = pc[q]
              /\ UNCHANGED <<lvl, val, resp, aw, cbCalls, epCalls, sent, nAuth,
                             authTx, issued, hist, heldAtCall, wr, tx, nCompl>>]_vars

C23_Witness ==
    \E p \in Pid :
        /\ pc[p] = "refused"
        /\ NonEmptyToken(token)
        /\ r[p].retry
        /\ r[p].callbackExecuted
        /\ r[p].callback = "returns"

\* C24 as stated: a second completion attempt cannot occur: resolveRequest
\* or rejectRequest is applied to a descriptor at most once over its
\* lifetime, 401 retry included.
C24_CompletionReachedOnce ==
    \A p \in Pid : nCompl[p] <= 1

\* the mapiRequest(r) invocations of the lifetime of p
Levels(p) == IF r[p].retry THEN 2 ELSE 1

\* the callback of p was handed an error
CallbackGotError(p) == cbCalls[p] # <<>> /\ TheCall(p).err # Null

\* C24 amended: the completion step is applied once by every mapiRequest(r)
\* invocation whose chain gets that far: a finished lifetime has seen it
\* once when the callback was handed an error (the chain ends there), and
\* otherwise once per invocation, twice after a 401 retry, plus one
\* rejectRequest when the callback threw on a result; the callback itself is
\* never invoked more than once.
C24_CompletionOncePerLevel ==
    \A p \in Pid :
        /\ nCompl[p] <= 3
        /\ Len(cbCalls[p]) <= 1
        /\ pc[p] = "done" =>
              nCompl[p] = IF CallbackGotError(p) THEN 1
                          ELSE Levels(p) + (IF cbCalls[p] # <<>> /\ r[p].callback = "throws"
                                            THEN 1 ELSE 0)

C24_Witness ==
    \E p \in Main :
        /\ pc[p] = "done"
        /\ r[p].retry
        /\ r[p].callback = "returns"
        /\ nCompl[p] = 2
        /\ Len(cbCalls[p]) = 1
        /\ TheCall(p).err = Null

\* C25 as stated: while a GET call whose descriptor carries a query mapping
\* is in flight, the path of the request handed to the Transport is the
\* descriptor's path followed by the mapping serialized as a query string.
C25_QueryReachesTransport ==
    \A p \in Pid :
        ( /\ pc[p] = "inflight"
          /\ DescMethod(r[p]) = "get"
          /\ DescQuery(r[p]) # Undefined )
            => tx[p].path = <<r[p].path, "?">> \o Stringify(DescQuery(r[p]))

\* C26 as stated: a request to a path other than the authentication path is
\* handed to the Transport only while the shared token is a non-empty string,
\* so the bearer value it was sent with is a non-empty string.
C26_EndpointCallHasToken ==
    \A p \in Pid :
        (pc[p] = "inflight" /\ r[p].path # AuthPath) => NonEmptyToken(sent[p])

\* C27 as stated: every file write of a call was made for a response whose
\* status is a success status (2xx).
C27_WriteOnlyOnSuccess ==
    \A p \in Pid :
        \A i \in 1..Len(wr[p]) : wr[p][i].status \in 200..299

\* C28: the work of one descriptor is bounded whatever the Transport
\* returns.  A call to a non-authentication endpoint issues at most 2
\* Transport calls to that endpoint and invokes authenticate() at most twice,
\* each invocation issuing at most 2 Transport calls to the authentication
\* endpoint, at most 4 in all; a direct authenticate() call issues at most 2
\* Transport calls and authenticates through nobody else.  No pipeline is
\* entered more than twice for one descriptor.
C28_BoundedWork ==
    /\ \A p \in Pid : epCalls[p] <= 2 /\ lvl[p] <= 2
    /\ \A p \in Main :
          /\ nAuth[p] <= 2
          /\ authTx[p] <= 2 * nAuth[p]
          /\ authTx[p] <= 4
          /\ r[p].path = AuthPath => nAuth[p] = 0 /\ authTx[p] = 0

\* a call that went as far as the pipeline lets it: two endpoint calls and
\* two authenticate() invocations, each of which reached the Transport
C28_Witness ==
    \E p \in Main :
        /\ r[p].path # AuthPath
        /\ epCalls[p] = 2
        /\ nAuth[p] = 2
        /\ authTx[p] = 2

\* C29: authentication never recurses.  A descriptor whose path is the
\* authentication endpoint never invokes authenticate(), whether it was
\* submitted directly or by authenticate(), so a pipeline is nested in
\* another at most once: every nested pipeline is an authentication
\* descriptor under an outer descriptor that waits for it and is not itself
\* an authentication descriptor.
C29_AuthenticationNeverRecurses ==
    /\ \A p \in Pid :
          r[p].path = AuthPath =>
              /\ pc[p] \notin {"authenticate", "awaitAuth"}
              /\ nAuth[p] = 0
    /\ \A c \in Pid \ Main :
          pc[c] # "idle" =>
              /\ r[c].path = AuthPath
              /\ pc[Parent(c)] = "awaitAuth"
              /\ r[Parent(c)].path # AuthPath

\* the authentication descriptor of a retried call is with the Transport:
\* it went from the check straight to its exchange, nested once
C29_Witness ==
    \E c \in Pid \ Main :
        /\ pc[c] = "inflight"
        /\ r[c].path = AuthPath
        /\ r[Parent(c)].retry
        /\ nAuth[Parent(c)] = 2

C31_ThrowingCallbackRejectsAwaitable ==
    \A p \in Pid :
        ( /\ r[p].callback = "throws"
          /\ cbCalls[p] # <<>>
          /\ cbCalls[p][1].err = Null )
            => /\ Len(cbCalls[p]) = 1
               /\ r[p].callbackExecuted
               /\ pc[p] \in {"reject", "done"}
               /\ pc[p] = "reject" => val[p] = CallbackError
               /\ pc[p] = "done" =>
                      aw[p] = [st |-> "rejected", v |-> CallbackError]

\* a call whose callback threw on the result of the retried attempt has
\* ended: one invocation, the awaitable rejected with what was thrown
C31_Witness ==
    \E p \in Main :
        /\ pc[p] = "done"
        /\ r[p].callback = "throws"
        /\ r[p].retry
        /\ Len(cbCalls[p]) = 1
        /\ cbCalls[p][1].err = Null
        /\ aw[p].st = "rejected"
        /\ aw[p].v = CallbackError

====
